---- MODULE Spec2Model ----
(***************************************************************************)
(* A model of pygofile's Gofile client (src/pygofile/gofile.py).           *)
(*                                                                         *)
(* Python values: a str is a sequence of one-character strings, None is    *)
(* a sequence no str equals, a dict is a function from key strings to      *)
(* values.                                                                 *)
(* Coroutines run on one event loop, so a call's code between two awaits   *)
(* is one atomic action.                                                   *)
(***************************************************************************)
EXTENDS Integers, Sequences, FiniteSets, TLC

(***************************************************************************)
(* Python values                                                           *)
(***************************************************************************)
None == << "None" >>

\* bool(v) of a str or None
Truthy(v) == v # None /\ v # << >>

\* {}
EmptyDict == [k \in {} |-> << >>]

\* d[k] = v
Put(d, k, v) == [x \in (DOMAIN d) \cup {k} |-> IF x = k THEN v ELSE d[x]]

\* str.replace(" ", "")
StripSpaces(s) == SelectSeq(s, LAMBDA ch : ch # " ")

\* index of the first sep in s, or 0
RECURSIVE FindFrom(_, _, _)
FindFrom(s, sep, i) ==
    IF i > Len(s) THEN 0
    ELSE IF s[i] = sep THEN i
    ELSE FindFrom(s, sep, i + 1)

\* str.split(sep)
RECURSIVE Split(_, _)
Split(s, sep) ==
    LET i == FindFrom(s, sep, 1) IN
    IF i = 0 THEN << s >>
    ELSE << SubSeq(s, 1, i - 1) >> \o Split(SubSeq(s, i + 1, Len(s)), sep)

\* str.split(sep, maxsplit=1)[0]
SplitFirst(s, sep) ==
    LET i == FindFrom(s, sep, 1) IN
    IF i = 0 THEN s ELSE SubSeq(s, 1, i - 1)

Digits == << "0", "1", "2", "3", "4", "5", "6", "7", "8", "9" >>

DigitVal(ch) == (CHOOSE i \in 1..10 : Digits[i] = ch) - 1

\* int(s) of a string of decimal digits
RECURSIVE ParseInt(_)
ParseInt(s) ==
    IF Len(s) = 0 THEN 0
    ELSE 10 * ParseInt(SubSeq(s, 1, Len(s) - 1)) + DigitVal(s[Len(s)])

\* str(n) of a natural number
RECURSIVE NatStr(_)
NatStr(n) ==
    IF n < 10 THEN << Digits[n + 1] >>
    ELSE NatStr(n \div 10) \o << Digits[(n % 10) + 1] >>

\* str(n) of an int
IntStr(n) == IF n < 0 THEN << "-" >> \o NatStr(-n) ELSE NatStr(n)

\* str(x) of a float x holding the whole number n
FloatStr(n) == IntStr(n) \o << ".", "0" >>

(***************************************************************************)
(* datetime.datetime(year, mon, day).timestamp() of a naive datetime: the  *)
(* date's midnight is read as local time of the platform, whose zone is    *)
(* utcoffset seconds east of UTC.                                          *)
(***************************************************************************)
IsLeap(y) == (y % 4 = 0) /\ ((y % 100 # 0) \/ (y % 400 = 0))

DaysInMonth(y, m) ==
    IF m = 2 THEN (IF IsLeap(y) THEN 29 ELSE 28)
    ELSE IF m \in {4, 6, 9, 11} THEN 30 ELSE 31

\* days before January 1st of year y, counted from 0001-01-01
DaysBeforeYear(y) ==
    (y - 1) * 365 + ((y - 1) \div 4) - ((y - 1) \div 100) + ((y - 1) \div 400)

RECURSIVE DaysBeforeMonth(_, _)
DaysBeforeMonth(y, m) ==
    IF m = 1 THEN 0 ELSE DaysBeforeMonth(y, m - 1) + DaysInMonth(y, m - 1)

Ymd2Ord(y, m, d) == DaysBeforeYear(y) + DaysBeforeMonth(y, m) + d

\* seconds from 1970-01-01T00:00:00Z to midnight UTC of the date
UtcMidnight(y, m, d) == (Ymd2Ord(y, m, d) - Ymd2Ord(1970, 1, 1)) * 86400

\* what the platform returns
NaiveTimestamp(y, m, d, utcoffset) == UtcMidnight(y, m, d) - utcoffset

\* lines 281-283
ExpireValue(v, utcoffset) ==
    LET parts == Split(v, "-")
        year  == ParseInt(parts[1])
        mon   == ParseInt(parts[2])
        day   == ParseInt(parts[3])
        timestamp == NaiveTimestamp(year, mon, day, utcoffset)
    IN  SplitFirst(FloatStr(timestamp), ".")

(***************************************************************************)
(* Gofile.serialize: its keyword arguments are the sequence kwargs of     *)
(* <<key, value>> pairs, in the order the caller passed them.             *)
(***************************************************************************)
\* folderId merged into the fields seen so far
FolderMerged(data, v) == Put(data, "folderId", v)

\* lines 271-273: data = {}; data["folderId"] = v; return data
FolderOnly(data, v) == Put(EmptyDict, "folderId", v)

RECURSIVE SerializeFrom(_, _, _, _)
SerializeFrom(kwargs, i, data, utcoffset) ==
    IF i > Len(kwargs) THEN data
    ELSE
      LET k == kwargs[i][1]
          v == kwargs[i][2]
      IN  IF k = "folder_id" /\ Truthy(v) THEN FolderOnly(data, v)
          ELSE IF k = "description" /\ Truthy(v)
            THEN SerializeFrom(kwargs, i + 1, Put(data, k, v), utcoffset)
          ELSE IF k = "password" /\ Truthy(v)
            THEN SerializeFrom(kwargs, i + 1, Put(data, k, v), utcoffset)
          ELSE IF k = "tags" /\ Truthy(v)
            THEN SerializeFrom(kwargs, i + 1, Put(data, k, StripSpaces(v)), utcoffset)
          ELSE IF k = "expire" /\ Truthy(v)
            THEN SerializeFrom(kwargs, i + 1, Put(data, k, ExpireValue(v, utcoffset)), utcoffset)
          ELSE SerializeFrom(kwargs, i + 1, data, utcoffset)

serialize(kwargs, utcoffset) == SerializeFrom(kwargs, 1, EmptyDict, utcoffset)

(***************************************************************************)
(* The client, its platform and the remote service                         *)
(***************************************************************************)
VARIABLES
    token,      \* self.token
    utcoffset,  \* the platform's time zone, seconds east of UTC
    scope,      \* which workload the client is put under
    kwargs,     \* the keyword arguments of a direct serialize call
    serOut,     \* what that serialize call returned
    sessions,   \* the ClientSession objects constructed so far: id -> open/closed
    pc,         \* per call: where its coroutine is suspended
    op,         \* per call: the method called and its arguments
    sid,        \* per call: the session it constructed (0: none)
    fh,         \* per call: the file object upload opened
    payload,    \* per call: the local dict data_ / data
    reqs,       \* per call: the requests it handed to the transport
    rx,         \* per call: what the transport gave back to it
    srv,        \* per call: what self.server(session) returned
    outcome     \* per call: how the call ended

vars == << token, utcoffset, scope, kwargs, serOut, sessions, pc, op, sid, fh,
           payload, reqs, rx, srv, outcome >>

NCalls == 2
Calls == 1..NCalls

MaxKw == 3

\* some strings
S_abc   == << "a", "b", "c" >>
S_abcd  == << "a", "b", "c", "d" >>
S_abcde == << "a", "b", "c", "d", "e" >>
S_tok   == << "t", "k" >>
S_desc  == << "d" >>
S_tags  == << "a", ",", " ", "b" >>
S_fid   == << "F" >>
S_file  == << "f" >>
S_nofile == << "x" >>
S_api   == << "a", "p", "i" >>
S_store1 == << "s", "1" >>
S_store2 == << "s", "2" >>
S_True  == << "T", "r", "u", "e" >>
S_False == << "F", "a", "l", "s", "e" >>
D_2021_12_25 == << "2", "0", "2", "1", "-", "1", "2", "-", "2", "5" >>
D_1970_01_01 == << "1", "9", "7", "0", "-", "0", "1", "-", "0", "1" >>
D_2000_03_01 == << "2", "0", "0", "0", "-", "0", "3", "-", "0", "1" >>

\* the files on the platform's disk
Disk == { S_file }

\* the zones a platform may be configured with: UTC, UTC+05:30, UTC-05:00
TZOffsets == { 0, 19800, -18000 }

Tokens == { None, << >>, S_tok }

NotRun == [notrun |-> TRUE]
NoOp == [kind |-> "none"]
Pending == [kind |-> "pending"]
Returned(v) == [kind |-> "returned", value |-> v]
Raised(e, m) == [kind |-> "raised", exc |-> e, msg |-> m]

\* the transport raises instead of answering
TransportFailure == [fail |-> TRUE]

\* the transport's exception, as it reaches the caller
TransportError == Raised("ClientError", "transport")

\* the envelopes the remote service may answer getServer with
ServerEnvelopes ==
    { [status |-> "ok", data |-> [server |-> S_store1]],
      [status |-> "ok", data |-> [server |-> S_store2]],
      [status |-> "error-notFound", data |-> [server |-> S_store1]] }

\* the envelopes it may answer the other endpoints with
Envelopes ==
    { [status |-> "ok", data |-> [code |-> S_abc]],
      [status |-> "error-auth", data |-> [code |-> S_abcd]] }

(***************************************************************************)
(* Pieces of the methods                                                   *)
(***************************************************************************)
\* a check that passes any path
isfile_any(file) == TRUE

\* os.path.isfile(file)
isfile(file) == file \in Disk

\* the limit off by one
PasswordTooShort3(password) == Truthy(password) /\ Len(password) < 3

\* password and len(str(password)) < 4
PasswordTooShort(password) == Truthy(password) /\ Len(password) < 4

\* a check for None alone
HoldsTokenNotNone(tok) == tok # None

\* the negation of "not self.token"
HoldsToken(tok) == Truthy(tok)

\* the keyword arguments upload passes to serialize, in its order
UploadKwargs(a) ==
    << << "file", a.file >>,
       << "description", a.description >>,
       << "password", a.password >>,
       << "tags", a.tags >>,
       << "expire", a.expire >>,
       << "folder_id", a.folder_id >> >>

\* data_ as upload builds it before it opens anything
UploadPayload(a, tok, off) ==
    LET data_ == serialize(UploadKwargs(a), off) IN
    IF Truthy(tok) THEN Put(data_, "token", tok) ELSE data_

\* the status never looked at
parse_json_lenient(json_) == Returned(json_.data)

parse_json(json_) ==
    IF json_.status = "ok" THEN Returned(json_.data)
    ELSE Raised("ServerError", json_.status)

\* one session shared by every call
SharedSessionId(ss) == 1

\* self.session(): a ClientSession of the call's own
NewSessionId(ss) == Len(ss) + 1

OpenSession(ss, id) ==
    [i \in 1..(IF id > Len(ss) THEN id ELSE Len(ss)) |->
        IF i = id THEN "open" ELSE ss[i]]

\* a session that is never closed
SessionKeptOpen(ss, id) == ss

\* leaving "async with self.session() as session"
SessionExit(ss, id) == [ss EXCEPT ![id] = "closed"]

\* leaving "with open(file, "rb") as _file"
FileExit(f) == IF f = "open" THEN "closed" ELSE f

\* urljoin(self.API.format(server="api"), path)
ApiUrl(path) == [host |-> S_api, path |-> path]

\* the upload sent to a fixed server
UploadUrlFixed(server) == [host |-> S_store1, path |-> "uploadFile"]

\* urljoin(self.API.format(server=server), "uploadFile")
UploadUrl(server) == [host |-> server, path |-> "uploadFile"]

\* the methods that await data.json() inside the "async with" block
DecodesInsideSession(kind) == kind \in { "set_folder_options", "create_folder" }

AuthKinds ==
    { "get_account_details", "delete_content", "set_folder_options", "create_folder" }

Request(id, method, url, data) ==
    [sid |-> id, method |-> method, url |-> url, data |-> data]

BoolStr(b) == IF b THEN S_True ELSE S_False

(***************************************************************************)
(* The arguments the callers pass                                          *)
(***************************************************************************)
S_opt_tags == << "t", "a", "g", "s" >>
S_opt_description == << "d", "e", "s", "c" >>

UploadArgs ==
    IF scope = "single"
    THEN [ file : { S_file, S_nofile },
           description : { << >>, S_desc },
           password : { << >>, S_abc, S_abcd, S_abcde },
           tags : { << >>, S_tags },
           expire : { << >>, D_2021_12_25 },
           folder_id : { << >>, S_fid } ]
    ELSE [ file : { S_file, S_nofile },
           description : { << >> },
           password : { << >>, S_abcd },
           tags : { << >> },
           expire : { << >> },
           folder_id : { << >> } ]

FolderOptions == IF scope = "single" THEN { S_opt_tags, S_opt_description } ELSE { S_opt_tags }

AllDetails == IF scope = "single" THEN BOOLEAN ELSE { FALSE }

\* calls are numbered in the order they are made; under the single workload
\* the client serves one call
CanStart(c) ==
    /\ pc[c] = "idle"
    /\ \/ scope = "single" /\ c = 1
       \/ scope = "conc" /\ (IF c = 1 THEN TRUE ELSE pc[c - 1] # "idle")

(***************************************************************************)
(* The methods, one action per stretch of code between two awaits          *)
(***************************************************************************)
\* the call ends: it returns a value or an exception reaches the caller
Ends(c, how) ==
    /\ outcome' = [outcome EXCEPT ![c] = how]
    /\ pc' = [pc EXCEPT ![c] = "done"]

\* control leaves the call's with-blocks
Leave(c) ==
    /\ sessions' = SessionExit(sessions, sid[c])
    /\ fh' = [fh EXCEPT ![c] = FileExit(fh[c])]

\* an exception raised inside the with-blocks
Fail(c, exc) == Leave(c) /\ Ends(c, exc)

\* upload up to its first await, inside self.server(session)
StartUpload(c, a) ==
    /\ CanStart(c)
    /\ op' = [op EXCEPT ![c] = [kind |-> "upload", args |-> a]]
    /\ IF ~isfile(a.file) \/ PasswordTooShort(a.password)
       THEN /\ outcome' = [outcome EXCEPT ![c] =
                  IF ~isfile(a.file)
                  THEN Raised("ValueError", "Only file supported")
                  ELSE Raised("ValueError", "password is too short (min len 4)")]
            /\ pc' = [pc EXCEPT ![c] = "done"]
            /\ UNCHANGED << sessions, sid, fh, payload, reqs >>
       ELSE LET id == NewSessionId(sessions)
                data_ == Put(UploadPayload(a, token, utcoffset), "file", a.file)
            IN  /\ sessions' = OpenSession(sessions, id)
                /\ sid' = [sid EXCEPT ![c] = id]
                /\ fh' = [fh EXCEPT ![c] = "open"]
                /\ payload' = [payload EXCEPT ![c] = data_]
                /\ reqs' = [reqs EXCEPT ![c] =
                      << Request(id, "GET", ApiUrl("getServer"), EmptyDict) >>]
                /\ pc' = [pc EXCEPT ![c] = "getServer"]
                /\ UNCHANGED outcome
    /\ UNCHANGED << token, utcoffset, scope, kwargs, serOut, rx, srv >>

\* the methods that need the token, up to their await of the request
StartAuthed(c, o, method, url, data) ==
    /\ CanStart(c)
    /\ op' = [op EXCEPT ![c] = o]
    /\ IF ~HoldsToken(token)
       THEN /\ outcome' = [outcome EXCEPT ![c] =
                  Raised("NotAuthenticated", "You must provide token.")]
            /\ pc' = [pc EXCEPT ![c] = "done"]
            /\ UNCHANGED << sessions, sid, payload, reqs >>
       ELSE LET id == NewSessionId(sessions) IN
            /\ sessions' = OpenSession(sessions, id)
            /\ sid' = [sid EXCEPT ![c] = id]
            /\ payload' = [payload EXCEPT ![c] = data]
            /\ reqs' = [reqs EXCEPT ![c] = << Request(id, method, url, data) >>]
            /\ pc' = [pc EXCEPT ![c] = "request"]
            /\ UNCHANGED outcome
    /\ UNCHANGED << token, utcoffset, scope, kwargs, serOut, fh, rx, srv >>

StartGetAccountDetails(c, all_details) ==
    StartAuthed(c,
        [kind |-> "get_account_details", args |-> [all_details |-> all_details]],
        "GET",
        [host |-> S_api, path |-> "getAccountDetails",
         query |-> [token |-> token, allDetails |-> BoolStr(all_details)]],
        EmptyDict)

StartDeleteContent(c, content_id) ==
    StartAuthed(c,
        [kind |-> "delete_content", args |-> [content_id |-> content_id]],
        "DELETE",
        ApiUrl("deleteContent"),
        [contentId |-> content_id, token |-> token])

StartSetFolderOptions(c, folder_id, option, value) ==
    StartAuthed(c,
        [kind |-> "set_folder_options",
         args |-> [folder_id |-> folder_id, option |-> option, value |-> value]],
        "PUT",
        ApiUrl("setFolderOptions"),
        [token |-> token, folderId |-> folder_id, option |-> option,
         value |-> IF option = S_opt_tags THEN StripSpaces(value) ELSE value])

StartCreateFolder(c, parent_folder_id, folder_name) ==
    StartAuthed(c,
        [kind |-> "create_folder",
         args |-> [parent_folder_id |-> parent_folder_id, folder_name |-> folder_name]],
        "PUT",
        ApiUrl("createFolder"),
        [token |-> token, folderName |-> folder_name,
         parentFolderId |-> parent_folder_id])

\* server(): "await session.get(url)" returns the response, or raises
GetServerResponse(c) ==
    /\ pc[c] = "getServer"
    /\ \/ /\ pc' = [pc EXCEPT ![c] = "getServerJson"]
          /\ UNCHANGED << sessions, fh, rx, outcome >>
       \/ /\ rx' = [rx EXCEPT ![c] = Append(rx[c], TransportFailure)]
          /\ Fail(c, TransportError)
    /\ UNCHANGED << token, utcoffset, scope, kwargs, serOut, op, sid, payload, reqs, srv >>

\* server(): "await (...).json()" returns the envelope, or raises; then
\* parse_json, and upload goes on to its await of session.post
GetServerJson(c) ==
    /\ pc[c] = "getServerJson"
    /\ \/ \E e \in ServerEnvelopes :
            LET r == parse_json(e) IN
            /\ rx' = [rx EXCEPT ![c] = Append(rx[c], e)]
            /\ IF r.kind = "raised"
               THEN Fail(c, r) /\ UNCHANGED << srv, reqs >>
               ELSE LET server == r.value["server"] IN
                    /\ srv' = [srv EXCEPT ![c] = server]
                    /\ IF sessions[sid[c]] = "closed"
                       THEN Fail(c, Raised("RuntimeError", "Session is closed"))
                            /\ UNCHANGED reqs
                       ELSE /\ reqs' = [reqs EXCEPT ![c] = Append(reqs[c],
                                  Request(sid[c], "POST", UploadUrl(server), payload[c]))]
                            /\ pc' = [pc EXCEPT ![c] = "request"]
                            /\ UNCHANGED << sessions, fh, outcome >>
       \/ /\ rx' = [rx EXCEPT ![c] = Append(rx[c], TransportFailure)]
          /\ Fail(c, TransportError)
          /\ UNCHANGED << srv, reqs >>
    /\ UNCHANGED << token, utcoffset, scope, kwargs, serOut, op, sid, payload >>

\* "data = await session.<method>(...)" returns the response, or raises.
\* upload, get_account_details and delete_content leave their with-blocks
\* here, before they await data.json()
Response(c) ==
    /\ pc[c] = "request"
    /\ \/ /\ pc' = [pc EXCEPT ![c] = "json"]
          /\ IF DecodesInsideSession(op[c].kind)
             THEN UNCHANGED << sessions, fh >>
             ELSE /\ sessions' = SessionExit(sessions, sid[c])
                  /\ fh' = [fh EXCEPT ![c] = FileExit(fh[c])]
          /\ UNCHANGED << rx, outcome >>
       \/ /\ rx' = [rx EXCEPT ![c] = Append(rx[c], TransportFailure)]
          /\ Fail(c, TransportError)
    /\ UNCHANGED << token, utcoffset, scope, kwargs, serOut, op, sid, payload, reqs, srv >>

\* "await data.json()" returns the envelope, or raises; then parse_json
Json(c) ==
    /\ pc[c] = "json"
    /\ IF DecodesInsideSession(op[c].kind)
       THEN sessions' = SessionExit(sessions, sid[c])
       ELSE UNCHANGED sessions
    /\ UNCHANGED fh
    /\ \/ \E e \in Envelopes :
            /\ rx' = [rx EXCEPT ![c] = Append(rx[c], e)]
            /\ Ends(c, parse_json(e))
       \/ /\ rx' = [rx EXCEPT ![c] = Append(rx[c], TransportFailure)]
          /\ Ends(c, TransportError)
    /\ UNCHANGED << token, utcoffset, scope, kwargs, serOut, op, sid, payload, reqs, srv >>

(***************************************************************************)
(* A direct call of the static method serialize                            *)
(***************************************************************************)
KwKeys == { "file", "description", "password", "tags", "expire", "folder_id" }

KwValues(k) ==
    CASE k = "file" -> { S_file }
      [] k = "description" -> { << >>, S_desc }
      [] k = "password" -> { << >>, S_abcd }
      [] k = "tags" -> { << >>, S_tags }
      [] k = "expire" -> { << >>, D_2021_12_25, D_1970_01_01, D_2000_03_01 }
      [] k = "folder_id" -> { << >>, S_fid }

KwPairs == UNION { { << k, v >> : v \in KwValues(k) } : k \in KwKeys }

\* keyword arguments: no key twice
KwargSeqs ==
    UNION { { s \in [1..n -> KwPairs] :
                \A i, j \in 1..n : i # j => s[i][1] # s[j][1] } : n \in 0..MaxKw }

SerializeCall ==
    /\ scope = "pure"
    /\ serOut = NotRun
    /\ serOut' = serialize(kwargs, utcoffset)
    /\ UNCHANGED << token, utcoffset, scope, kwargs, sessions, pc, op, sid, fh,
                    payload, reqs, rx, srv, outcome >>

(***************************************************************************)
(* Specifications                                                          *)
(***************************************************************************)
InitCalls ==
    /\ sessions = << >>
    /\ pc = [c \in Calls |-> "idle"]
    /\ op = [c \in Calls |-> NoOp]
    /\ sid = [c \in Calls |-> 0]
    /\ fh = [c \in Calls |-> "none"]
    /\ payload = [c \in Calls |-> EmptyDict]
    /\ reqs = [c \in Calls |-> << >>]
    /\ rx = [c \in Calls |-> << >>]
    /\ srv = [c \in Calls |-> None]
    /\ outcome = [c \in Calls |-> Pending]

\* one call on a client, any arguments, any platform
Init ==
    /\ token \in Tokens
    /\ utcoffset \in TZOffsets
    /\ scope = "single"
    /\ kwargs = << >>
    /\ serOut = NotRun
    /\ InitCalls

\* concurrent calls on one client
InitConc ==
    /\ token \in { None, S_tok }
    /\ utcoffset = 0
    /\ scope = "conc"
    /\ kwargs = << >>
    /\ serOut = NotRun
    /\ InitCalls

\* a direct serialize call, any keyword arguments, any platform
InitSer ==
    /\ token = None
    /\ utcoffset \in TZOffsets
    /\ scope = "pure"
    /\ kwargs \in KwargSeqs
    /\ serOut = NotRun
    /\ InitCalls

Next ==
    \E c \in Calls :
        \/ \E a \in UploadArgs : StartUpload(c, a)
        \/ \E all_details \in AllDetails : StartGetAccountDetails(c, all_details)
        \/ StartDeleteContent(c, S_abc)
        \/ \E option \in FolderOptions : StartSetFolderOptions(c, S_fid, option, S_tags)
        \/ StartCreateFolder(c, S_fid, S_desc)
        \/ GetServerResponse(c)
        \/ GetServerJson(c)
        \/ Response(c)
        \/ Json(c)

NextSer == SerializeCall

Spec == Init /\ [][Next]_vars

SpecConc == InitConc /\ [][Next]_vars

SpecSer == InitSer /\ [][NextSer]_vars

(***************************************************************************)
(* Properties                                                              *)
(***************************************************************************)
S_1640390400 == << "1", "6", "4", "0", "3", "9", "0", "4", "0", "0" >>
S_951868800 == << "9", "5", "1", "8", "6", "8", "8", "0", "0" >>
S_0 == << "0" >>

IsUpload(c) == op[c].kind = "upload"

\* the call raised ValueError and touched neither transport nor file
RejectedLocally(c) ==
    /\ pc[c] = "done"
    /\ outcome[c] \in { Raised("ValueError", "Only file supported"),
                        Raised("ValueError", "password is too short (min len 4)") }
    /\ reqs[c] = << >>
    /\ rx[c] = << >>
    /\ sid[c] = 0
    /\ fh[c] = "none"

IsEnvelope(x) == x # TransportFailure

LastRx(c) == rx[c][Len(rx[c])]

\* the uploadFile requests of call c
UploadRequests(c) ==
    { reqs[c][i] : i \in { j \in 1..Len(reqs[c]) : reqs[c][j].url.path = "uploadFile" } }

\* C1: a method that needs the token, called on a client whose token is
\* absent or empty, raises NotAuthenticated having constructed no session
\* and handed no request to the transport.
C1_NoCredentialNoNetwork ==
    \A c \in Calls :
        (op[c].kind \in AuthKinds /\ (token = None \/ token = << >>))
        => /\ pc[c] = "done"
           /\ outcome[c] = Raised("NotAuthenticated", "You must provide token.")
           /\ reqs[c] = << >>
           /\ rx[c] = << >>
           /\ sid[c] = 0
           /\ sessions = << >>

C1_Witness ==
    \E c \in Calls :
        /\ op[c].kind = "set_folder_options"
        /\ token = << >>
        /\ pc[c] = "done"
        /\ outcome[c].kind = "raised"

\* C2, as stated: upload raises ValueError before any network call, session
\* or file handle whenever the file does not exist or the password has fewer
\* than 4 characters.
C2_Original ==
    \A c \in Calls :
        (IsUpload(c) /\ (op[c].args.file \notin Disk \/ Len(op[c].args.password) < 4))
        => RejectedLocally(c)

\* C2, amended: the same, for a missing file or a non-empty password of
\* fewer than 4 characters; the empty password is no password.
C2_RejectedBeforeNetwork ==
    \A c \in Calls :
        (IsUpload(c) /\ (op[c].args.file \notin Disk
                         \/ (op[c].args.password # << >> /\ Len(op[c].args.password) < 4)))
        => RejectedLocally(c)

C2_Witness ==
    \E c \in Calls :
        /\ IsUpload(c)
        /\ token = S_tok
        /\ op[c].args.file \in Disk
        /\ op[c].args.password = S_abc
        /\ op[c].args.folder_id = S_fid
        /\ RejectedLocally(c)

\* what C3 says of the five methods: a finished call returned or raised; it
\* returned only the data of an envelope whose status is "ok", unchanged; an
\* envelope of any other status made it raise ServerError with that status.
C3_Methods(c) ==
    /\ pc[c] = "done" => outcome[c].kind \in { "returned", "raised" }
    /\ pc[c] # "done" => outcome[c] = Pending
    /\ outcome[c].kind = "returned"
       => /\ rx[c] # << >>
          /\ IsEnvelope(LastRx(c))
          /\ LastRx(c).status = "ok"
          /\ outcome[c].value = LastRx(c).data
    /\ (pc[c] = "done" /\ rx[c] # << >> /\ IsEnvelope(LastRx(c)) /\ LastRx(c).status # "ok")
       => outcome[c] = Raised("ServerError", LastRx(c).status)

\* an envelope of a status other than "ok" ends the server resolution, and
\* the upload with it, by ServerError
C3_ResolutionRaises(c) ==
    (IsUpload(c) /\ rx[c] # << >> /\ IsEnvelope(rx[c][1]) /\ rx[c][1].status # "ok")
    => /\ srv[c] = None
       /\ outcome[c] = Raised("ServerError", rx[c][1].status)

\* C3, as stated: the above, and server resolution returns the data mapping
\* of its envelope unchanged.
C3_Original ==
    \A c \in Calls :
        /\ C3_Methods(c)
        /\ C3_ResolutionRaises(c)
        /\ srv[c] # None
           => /\ IsEnvelope(rx[c][1])
              /\ rx[c][1].status = "ok"
              /\ srv[c] = rx[c][1].data

\* C3, amended: the above, and server resolution returns the server entry
\* of its envelope's data mapping.
C3_ReturnsDataOrRaises ==
    \A c \in Calls :
        /\ C3_Methods(c)
        /\ C3_ResolutionRaises(c)
        /\ srv[c] # None
           => /\ IsEnvelope(rx[c][1])
              /\ rx[c][1].status = "ok"
              /\ srv[c] = rx[c][1].data["server"]

C3_Witness ==
    \E c \in Calls :
        /\ IsUpload(c)
        /\ srv[c] = S_store2
        /\ Len(rx[c]) = 2
        /\ outcome[c] = Raised("ServerError", "error-auth")

\* C4: serialize called with a non-empty folder_id returns exactly
\* {folderId: folder_id}, whatever the other fields and their order.
C4_FolderIdOnly ==
    serOut # NotRun
    => \A i \in 1..Len(kwargs) :
          (kwargs[i][1] = "folder_id" /\ kwargs[i][2] # << >>)
          => serOut = [folderId |-> kwargs[i][2]]

C4_Witness ==
    /\ serOut = [folderId |-> S_fid]
    /\ Len(kwargs) = 3
    /\ kwargs[1] = << "description", S_desc >>
    /\ kwargs[2] = << "tags", S_tags >>
    /\ kwargs[3] = << "folder_id", S_fid >>

\* C5, as stated: a password of 3 characters is rejected; one of 4 or more
\* (with an existing file) is accepted and is in the payload of the
\* uploadFile request, whatever the other arguments.
C5_Original ==
    \A c \in Calls :
        IsUpload(c)
        => /\ Len(op[c].args.password) = 3 => RejectedLocally(c)
           /\ (Len(op[c].args.password) >= 4 /\ op[c].args.file \in Disk)
              => /\ outcome[c].kind = "raised" => outcome[c].exc # "ValueError"
                 /\ sid[c] # 0
                 /\ \A r \in UploadRequests(c) :
                       /\ "password" \in DOMAIN r.data
                       /\ r.data["password"] = op[c].args.password

\* C5, amended: a password of 3 characters is rejected; one of 4 or more,
\* with an existing file, is accepted; the uploadFile request carries it
\* verbatim when no folder_id is given, and carries the folderId and no
\* password when one is.
C5_PasswordInPayload ==
    \A c \in Calls :
        IsUpload(c)
        => /\ Len(op[c].args.password) = 3 => RejectedLocally(c)
           /\ (Len(op[c].args.password) >= 4 /\ op[c].args.file \in Disk)
              => /\ outcome[c].kind = "raised" => outcome[c].exc # "ValueError"
                 /\ sid[c] # 0
                 /\ \A r \in UploadRequests(c) :
                       IF op[c].args.folder_id = << >>
                       THEN /\ "password" \in DOMAIN r.data
                            /\ r.data["password"] = op[c].args.password
                       ELSE /\ "password" \notin DOMAIN r.data
                            /\ r.data["folderId"] = op[c].args.folder_id

C5_Witness ==
    \E c \in Calls :
        /\ IsUpload(c)
        /\ op[c].args.password = S_abcd
        /\ op[c].args.description = S_desc
        /\ op[c].args.folder_id = << >>
        /\ \E r \in UploadRequests(c) : r.data["password"] = S_abcd
        /\ outcome[c].kind = "returned"

\* C6: a call that has ended, however it ended, has closed the session it
\* constructed and the file it opened.
C6_Released ==
    \A c \in Calls :
        pc[c] = "done"
        => /\ sid[c] # 0 => sessions[sid[c]] = "closed"
           /\ fh[c] # "open"
           /\ (IsUpload(c) /\ sid[c] # 0) => fh[c] = "closed"

C6_Witness ==
    \E c \in Calls :
        /\ IsUpload(c)
        /\ pc[c] = "done"
        /\ outcome[c] = Raised("ServerError", "error-notFound")
        /\ sessions[sid[c]] = "closed"
        /\ fh[c] = "closed"

\* C8: without folder_id, the serialized expire of a date is the decimal
\* string of the Unix seconds of that date's midnight UTC, whatever the
\* platform's time zone.
C8_ExpireUtcMidnight ==
    serOut # NotRun
    => \A i \in 1..Len(kwargs) :
          (/\ kwargs[i][1] = "expire"
           /\ kwargs[i][2] # << >>
           /\ \A j \in 1..Len(kwargs) :
                 kwargs[j][1] = "folder_id" => kwargs[j][2] = << >>)
          => /\ "expire" \in DOMAIN serOut
             /\ serOut["expire"] =
                   CASE kwargs[i][2] = D_2021_12_25 -> S_1640390400
                     [] kwargs[i][2] = D_2000_03_01 -> S_951868800
                     [] kwargs[i][2] = D_1970_01_01 -> S_0

\* C10: whenever a call awaits the decoding of a response body, the session
\* the response came through is still open.
C10_DecodeWhileOpen ==
    \A c \in Calls :
        pc[c] \in { "getServerJson", "json" } => sessions[sid[c]] = "open"

\* how a call of upload with arguments a ends when it runs alone and the
\* transport gives it r
AloneUpload(a, r) ==
    IF a.file \notin Disk THEN Raised("ValueError", "Only file supported")
    ELSE IF a.password # << >> /\ Len(a.password) < 4
      THEN Raised("ValueError", "password is too short (min len 4)")
    ELSE IF r = << >> THEN Pending
    ELSE IF r[1] = TransportFailure THEN TransportError
    ELSE IF r[1].status # "ok" THEN Raised("ServerError", r[1].status)
    ELSE IF Len(r) = 1 THEN Pending
    ELSE IF r[2] = TransportFailure THEN TransportError
    ELSE IF r[2].status # "ok" THEN Raised("ServerError", r[2].status)
    ELSE Returned(r[2].data)

\* the same for a method that needs the token
AloneAuthed(tok, r) ==
    IF tok = None \/ tok = << >>
      THEN Raised("NotAuthenticated", "You must provide token.")
    ELSE IF r = << >> THEN Pending
    ELSE IF r[1] = TransportFailure THEN TransportError
    ELSE IF r[1].status # "ok" THEN Raised("ServerError", r[1].status)
    ELSE Returned(r[1].data)

Alone(c) ==
    IF IsUpload(c) THEN AloneUpload(op[c].args, rx[c])
    ELSE IF op[c].kind \in AuthKinds THEN AloneAuthed(token, rx[c])
    ELSE Pending

C7_Independent ==
    /\ \A c, d \in Calls : (c # d /\ sid[c] # 0) => sid[c] # sid[d]
    /\ \A c \in Calls :
          /\ \A i \in 1..Len(reqs[c]) : reqs[c][i].sid = sid[c]
          /\ \A r \in UploadRequests(c) :
                /\ r.data["file"] = op[c].args.file
                /\ "password" \in DOMAIN r.data <=> op[c].args.password # << >>
                /\ "password" \in DOMAIN r.data => r.data["password"] = op[c].args.password
          /\ outcome[c] = Alone(c)

\* C7: under any interleaving of calls on one client no step writes the
\* token, every call has a session of its own and sends a payload built from
\* its own arguments, and every call ends as it would have ended alone with
\* the same answers from the transport.
C7_ConcurrentCallsSafe == [](C7_Independent) /\ [][token' = token]_vars

\* call 2 ran from start to end while call 1 was suspended
C7_Witness ==
    /\ IsUpload(1) /\ IsUpload(2)
    /\ op[1].args.password = S_abcd
    /\ op[2].args.password = << >>
    /\ pc[1] = "request"
    /\ pc[2] = "done"
    /\ outcome[2].kind = "returned"
    /\ sid[1] = 1 /\ sid[2] = 2

IsGetServer(r) == r.method = "GET" /\ r.url = [host |-> S_api, path |-> "getServer"]

\* C9: an upload that passed validation sends getServer first and once,
\* then at most one uploadFile POST, to the host its own resolution
\* returned, and none when the resolution raised; no request is sent twice.
C9_ResolveThenUpload ==
    \A c \in Calls :
        (/\ IsUpload(c)
         /\ op[c].args.file \in Disk
         /\ ~(op[c].args.password # << >> /\ Len(op[c].args.password) < 4))
        => /\ Len(reqs[c]) \in { 1, 2 }
           /\ IsGetServer(reqs[c][1])
           /\ Len(reqs[c]) = 2
              => /\ reqs[c][2].method = "POST"
                 /\ reqs[c][2].url.path = "uploadFile"
                 /\ IsEnvelope(rx[c][1])
                 /\ rx[c][1].status = "ok"
                 /\ reqs[c][2].url.host = rx[c][1].data["server"]
           /\ (rx[c] # << >> /\ IsEnvelope(rx[c][1]) /\ rx[c][1].status = "ok")
              => Len(reqs[c]) = 2
           /\ (rx[c] # << >> /\ ~IsEnvelope(rx[c][1])) => Len(reqs[c]) = 1
           /\ (rx[c] # << >> /\ IsEnvelope(rx[c][1]) /\ rx[c][1].status # "ok")
              => Len(reqs[c]) = 1

\* two uploads on one client, each resolved to a server of its own
C9_Witness ==
    /\ IsUpload(1) /\ IsUpload(2)
    /\ pc[1] = "done" /\ pc[2] = "done"
    /\ Len(reqs[1]) = 2 /\ Len(reqs[2]) = 2
    /\ reqs[1][2].url.host = S_store1
    /\ reqs[2][2].url.host = S_store2
    /\ IsGetServer(reqs[2][1])

====
